---- MODULE Spec2Model ----
(***************************************************************************)
(* Model of the business/review REST API of src/main.py.                   *)
(*                                                                         *)
(* The relational store is modelled by the two tables the handlers read    *)
(* and write.  Every SQL statement of a handler is one atomic step; the    *)
(* rows a transaction has written stay invisible to the other connections  *)
(* until its conn.commit(), and a row it has written is write-locked until *)
(* then, so a statement of another connection that targets the row waits.  *)
(* Request bodies are JSON objects: functions from the field names present *)
(* to their values.  Text is a sequence of one-character strings.          *)
(***************************************************************************)
EXTENDS Integers, Sequences, FiniteSets, TLC

\* ------------------------------------------------------------------ bounds

\* Business ids the store hands out (businesses.id SERIAL): 1..MaxBiz.
MaxBiz == 2
\* Review ids the store hands out (reviews.id SERIAL): 1..MaxRev.
MaxRev == 2
\* Rows per table in the tables a pagination traversal starts from.
MaxRows == 4
\* Largest page size a traversal asks for.
MaxLimit == 3

\* Connections of the pool that serve requests at the same time.
Conns == {"c1", "c2"}

VARIABLES
    businesses,   \* committed rows of table businesses: id -> row
    reviews,      \* committed rows of table reviews: id -> row
    nextBid,      \* AUTO_INCREMENT counter of businesses.id
    nextRid,      \* AUTO_INCREMENT counter of reviews.id
    fkEnforced,   \* whether the store enforces reviews.business_id REFERENCES
    conn,         \* per connection: the handler it runs, its position, its locals
    resp,         \* the response returned by the step just taken, or NoResp
    prev,         \* history: the response before it (sequential runs only)
    pre,          \* history: the tables when the answered request began
    trav          \* a client following `next` links of a listing

vars == <<businesses, reviews, nextBid, nextRid, fkEnforced, conn, resp, prev, pre, trav>>

\* ------------------------------------------------------------------- text

Digits == <<"0", "1", "2", "3", "4", "5", "6", "7", "8", "9">>

IsDigit(ch) == \E d \in 1..10 : Digits[d] = ch

DigitVal(ch) == (CHOOSE d \in 1..10 : Digits[d] = ch) - 1

RECURSIVE IntToStr(_)
\* str(n) of a non-negative integer: what the driver sends for a JSON number
\* bound to a VARCHAR column.
IntToStr(n) ==
    IF n < 10 THEN <<Digits[n + 1]>>
    ELSE IntToStr(n \div 10) \o <<Digits[(n % 10) + 1]>>

RECURSIVE DecimalValue(_)
DecimalValue(s) ==
    IF Len(s) = 0 THEN 0
    ELSE DecimalValue(SubSeq(s, 1, Len(s) - 1)) * 10 + DigitVal(s[Len(s)])

\* Python's int(s) on a str: the number, or ValueError (ok = FALSE) when s is
\* empty or holds a character that is no digit.
PyInt(s) ==
    IF Len(s) = 0 \/ \E i \in 1..Len(s) : ~IsDigit(s[i])
    THEN [ok |-> FALSE, val |-> 0]
    ELSE [ok |-> TRUE, val |-> DecimalValue(s)]

\* JSON values a zip_code comes as: a string or a number.
JStr(s) == [t |-> "str", n |-> 0, s |-> s]
JInt(n) == [t |-> "int", n |-> n, s |-> <<>>]

\* The value a VARCHAR column stores for a JSON value.
ToVarchar(v) == IF v.t = "str" THEN v.s ELSE IntToStr(v.n)

\* ------------------------------------------------------------- constants

BUSINESSES == "businesses"
REVIEWS == "reviews"
ERROR_NOT_FOUND == [Error |-> "No business with this business_id exists"]
ERROR_REVIEW_NOT_FOUND == [Error |-> "No review with this review_id exists"]
ERROR_BAD_REQUEST == [Error |-> "The request body is missing at least one of the required attributes"]
ERROR_CONFLICT == [Error |-> "You have already submitted a review for this business. You can update your previous review, or delete it and submit a new review"]
ERROR_CREATE_BUSINESS == [Error |-> "Unable to create business"]
ERROR_CREATE_REVIEW == [Error |-> "Unable to create review"]
\* The framework's answer to an exception no handler catches.
ERROR_UNHANDLED == [Error |-> "Internal Server Error"]

BusinessFields == {"owner_id", "name", "street_address", "city", "state", "zip_code"}
ReviewRequired == {"user_id", "business_id", "stars"}

Nil == [nil |-> TRUE]

NoResp == [conn |-> "none", op |-> "none", id |-> 0, req |-> Nil, status |-> 0, body |-> Nil]

Response(c, op, id, req, status, body) ==
    [conn |-> c, op |-> op, id |-> id, req |-> req, status |-> status, body |-> body]

IdleConn == [op |-> "idle", pc |-> "idle", id |-> 0, content |-> Nil,
             newid |-> 0, delset |-> {}, rowcount |-> 0]

\* request.url_root is the empty path; a URL is the sequence of its segments.
url_root == <<>>

\* f"{request.base_url}/{id}" of a POST to /<collection>.
CreatedUrl(collection, id) == Append(url_root \o <<collection>>, id)

\* f"{root_url}<collection>/{id}".
ResourceUrl(collection, id) == url_root \o <<collection, id>>

\* f"{request.base_url}?offset={next_offset}&limit={limit}".
NextUrl(collection, offset, limit) ==
    [path |-> url_root \o <<collection>>, offset |-> offset, limit |-> limit]

\* f restricted to its domain without the keys in S.
Without(f, S) == [k \in DOMAIN f \ S |-> f[k]]

\* ----------------------------------------------------------------- inputs

Body1 == [owner_id |-> 7, name |-> "n1", street_address |-> "s1",
          city |-> "c1", state |-> "OR", zip_code |-> JStr(<<"0", "7">>)]
Body2 == [owner_id |-> 8, name |-> "n2", street_address |-> "s2",
          city |-> "c2", state |-> "WA", zip_code |-> JInt(12)]
Body3 == [Body1 EXCEPT !.zip_code = JStr(<<"1", "a">>)]

\* Bodies of POST/PUT /businesses: every field of a type its column takes.
FullBusinessBodies == {Body1, Body2, Body3}
PartBusinessBodies == {Without(Body1, {f}) : f \in BusinessFields}
BusinessBodies == FullBusinessBodies \cup PartBusinessBodies

UserIds == {1, 2}
Stars == {2, 4}
Texts == {"t1"}

FullReviewBodies ==
    [user_id : UserIds, business_id : 1..MaxBiz, stars : Stars]
    \cup [user_id : UserIds, business_id : 1..MaxBiz, stars : Stars, review_text : Texts]
PartReviewBodies == {Without([user_id |-> 1, business_id |-> 1, stars |-> 2], {f}) : f \in ReviewRequired}
ReviewBodies == FullReviewBodies \cup PartReviewBodies

\* Bodies of PUT /reviews/<id>.
ReviewUpdates == [stars : Stars] \cup [stars : Stars, review_text : Texts]
                 \cup {[review_text |-> "t1"]}

BizIds == 1..MaxBiz
RevIds == 1..MaxRev

\* The bodies the interleaved requests are drawn from: enough of them to reach
\* every branch of every handler.
SomePostBodies == {Body1, Without(Body1, {"zip_code"})}
SomePutBodies == {Body2, Without(Body2, {"zip_code"})}
SomeReviewBodies ==
    [user_id : UserIds, business_id : BizIds, stars : {2}]
    \cup {[user_id |-> 1, business_id |-> 1]}
SomeReviewUpdates == {[stars |-> 4], [review_text |-> "t1"]}

\* ------------------------------------------------------------------ store

\* The row INSERT/UPDATE businesses writes for a body (zip_code VARCHAR(5)).
BusinessRow(content) ==
    [owner_id |-> content.owner_id, name |-> content.name,
     street_address |-> content.street_address, city |-> content.city,
     state |-> content.state, zip_code |-> ToVarchar(content.zip_code)]

\* The row INSERT reviews writes: review_text is content.get('review_text', '').
ReviewRow(content) ==
    [user_id |-> content.user_id, business_id |-> content.business_id,
     stars |-> content.stars,
     review_text |-> IF "review_text" \in DOMAIN content THEN content.review_text ELSE ""]

\* A slip of put_review: the text written as content.get('review_text', '').
UpdatedReviewBlanksText(row, content) ==
    [row EXCEPT !.stars = content.stars,
                !.review_text = IF "review_text" \in DOMAIN content
                                THEN content.review_text ELSE ""]

\* UPDATE reviews SET <update_parts> on a row.
UpdatedReview(row, content) ==
    [row EXCEPT !.stars = content.stars,
                !.review_text = IF "review_text" \in DOMAIN content
                                THEN content.review_text ELSE @]

\* A slip of post_review: the business check without its WHERE clause.
business_check_any(b) == DOMAIN businesses # {}

\* SELECT 1 FROM businesses WHERE id = :business_id
business_check(b) == b \in DOMAIN businesses

\* A slip of post_review: the duplicate check binds user_id to both columns.
existing_review_same_bind(u, b) ==
    \E r \in DOMAIN reviews : reviews[r].user_id = u /\ reviews[r].business_id = u

\* SELECT 1 FROM reviews WHERE user_id = :user_id AND business_id = :business_id
existing_review(u, b) ==
    \E r \in DOMAIN reviews : reviews[r].user_id = u /\ reviews[r].business_id = b

\* A slip of delete_business: DELETE FROM reviews WHERE id = :id.
ReviewsOfById(b) == {r \in DOMAIN reviews : r = b}

\* The rows DELETE FROM reviews WHERE business_id = :id matches.
ReviewsOf(b) == {r \in DOMAIN reviews : reviews[r].business_id = b}

\* Review rows another connection's open transaction has updated or deleted.
ReviewsLockedFor(c) ==
    UNION {IF conn[d].op = "delete_business" /\ conn[d].pc \in {"delete", "commit"}
              THEN conn[d].delset
           ELSE IF conn[d].op \in {"delete_review", "put_review"}
                   /\ conn[d].pc = "commit" /\ conn[d].rowcount = 1
              THEN {conn[d].id}
           ELSE {} : d \in Conns \ {c}}

\* Business rows another connection's open transaction has updated or deleted.
BusinessesLockedFor(c) ==
    {conn[d].id : d \in {e \in Conns \ {c} :
        /\ conn[e].op \in {"delete_business", "put_business"}
        /\ conn[e].pc = "commit" /\ conn[e].rowcount = 1}}

\* Businesses a review another connection has inserted and not yet committed
\* refers to.
PendingReviewsFor(c) ==
    {conn[d].content.business_id : d \in {e \in Conns \ {c} :
        conn[e].op = "post_review" /\ conn[e].pc = "commit"}}

\* Businesses whose reviews another connection's open transaction has deleted:
\* DELETE ... WHERE business_id = :id locks the range it scanned until commit.
BusinessesBeingDeletedFor(c) ==
    {conn[d].id : d \in {e \in Conns \ {c} :
        conn[e].op = "delete_business" /\ conn[e].pc \in {"delete", "commit"}}}

\* A slip of the delete handlers: the row count taken as always 1.
rowcount_always(table, id) == 1

\* result.rowcount of a DELETE or UPDATE ... WHERE id = :id
rowcount(table, id) == IF id \in DOMAIN table THEN 1 ELSE 0

\* A slip of the create handlers: `except Exception` placed before
\* `except KeyError`, so a missing field is answered as a failed write.
KeyErrorAsFailure(c, op, id, content) == Response(c, op, id, content, 500, ERROR_CREATE_BUSINESS)

\* `except KeyError`: a field the handler reads is not in the body.
KeyErrorResponse(c, op, id, content) == Response(c, op, id, content, 400, ERROR_BAD_REQUEST)

Goto(c, op, pc, id, content) ==
    [conn EXCEPT ![c] = [IdleConn EXCEPT !.op = op, !.pc = pc, !.id = id, !.content = content]]

Return(c) == [conn EXCEPT ![c] = IdleConn]

\* ------------------------------------------------------------- businesses

\* The JSON object get_business and get_businesses build from a row.
BusinessJson(id, row) ==
    [id |-> id, owner_id |-> row.owner_id, name |-> row.name,
     street_address |-> row.street_address, city |-> row.city, state |-> row.state,
     zip_code |-> JInt(PyInt(row.zip_code).val), self |-> ResourceUrl(BUSINESSES, id)]

\* The JSON object post_businesses and put_business answer with: the body echoed.
BusinessEcho(id, content, self) ==
    [id |-> id, owner_id |-> content.owner_id, name |-> content.name,
     street_address |-> content.street_address, city |-> content.city,
     state |-> content.state, zip_code |-> content.zip_code, self |-> self]

\* POST /businesses: the INSERT and SELECT last_insert_id(); a missing field
\* raises KeyError while the parameters are built, before any statement.
post_businesses(c, content) ==
    /\ conn[c].op = "idle"
    /\ IF ~(BusinessFields \subseteq DOMAIN content)
       THEN /\ resp' = KeyErrorResponse(c, "post_businesses", 0, content)
            /\ UNCHANGED <<conn, nextBid>>
       ELSE /\ nextBid <= MaxBiz
            /\ conn' = [conn EXCEPT ![c] = [IdleConn EXCEPT !.op = "post_businesses",
                           !.pc = "commit", !.content = content, !.newid = nextBid]]
            /\ nextBid' = nextBid + 1
            /\ resp' = NoResp
    /\ UNCHANGED <<businesses, reviews, nextRid, fkEnforced>>

\* POST /businesses: conn.commit() and the 201 response.
post_businesses_commit(c) ==
    /\ conn[c].op = "post_businesses" /\ conn[c].pc = "commit"
    /\ businesses' = (conn[c].newid :> BusinessRow(conn[c].content)) @@ businesses
    /\ resp' = Response(c, "post_businesses", conn[c].newid, conn[c].content, 201,
                        BusinessEcho(conn[c].newid, conn[c].content,
                                     CreatedUrl(BUSINESSES, conn[c].newid)))
    /\ conn' = Return(c)
    /\ UNCHANGED <<reviews, nextBid, nextRid, fkEnforced>>

\* What GET /businesses/<id> answers: int(business['zip_code']) raises
\* ValueError when the stored text is no number, and nothing catches it.
get_business_response(id) ==
    IF id \notin DOMAIN businesses THEN [status |-> 404, body |-> ERROR_NOT_FOUND]
    ELSE IF ~PyInt(businesses[id].zip_code).ok THEN [status |-> 500, body |-> ERROR_UNHANDLED]
    ELSE [status |-> 200, body |-> BusinessJson(id, businesses[id])]

\* GET /businesses/<id>
get_business(c, id) ==
    /\ conn[c].op = "idle"
    /\ resp' = Response(c, "get_business", id, Nil,
                        get_business_response(id).status, get_business_response(id).body)
    /\ UNCHANGED <<businesses, reviews, nextBid, nextRid, fkEnforced, conn>>

\* PUT /businesses/<id>: the lookup; content[...] raises KeyError on a missing
\* field once the row is found.
put_business(c, id, content) ==
    /\ conn[c].op = "idle"
    /\ IF id \notin DOMAIN businesses
       THEN /\ resp' = Response(c, "put_business", id, content, 404, ERROR_NOT_FOUND)
            /\ UNCHANGED conn
       ELSE IF ~(BusinessFields \subseteq DOMAIN content)
       THEN /\ resp' = KeyErrorResponse(c, "put_business", id, content)
            /\ UNCHANGED conn
       ELSE /\ resp' = NoResp
            /\ conn' = Goto(c, "put_business", "update", id, content)
    /\ UNCHANGED <<businesses, reviews, nextBid, nextRid, fkEnforced>>

\* PUT /businesses/<id>: the UPDATE; it waits for a lock on the row, and for
\* the parent lock of a pending child insert where the store enforces the key.
put_business_update(c) ==
    /\ conn[c].op = "put_business" /\ conn[c].pc = "update"
    /\ conn[c].id \notin BusinessesLockedFor(c)
    /\ fkEnforced => conn[c].id \notin PendingReviewsFor(c)
    /\ conn' = [conn EXCEPT ![c].pc = "commit",
                            ![c].rowcount = rowcount(businesses, conn[c].id)]
    /\ resp' = NoResp
    /\ UNCHANGED <<businesses, reviews, nextBid, nextRid, fkEnforced>>

\* PUT /businesses/<id>: conn.commit() and the response, which echoes the body.
put_business_commit(c) ==
    /\ conn[c].op = "put_business" /\ conn[c].pc = "commit"
    /\ businesses' = IF conn[c].rowcount = 1
                     THEN [businesses EXCEPT ![conn[c].id] = BusinessRow(conn[c].content)]
                     ELSE businesses
    /\ resp' = Response(c, "put_business", conn[c].id, conn[c].content, 200,
                        BusinessEcho(conn[c].id, conn[c].content,
                                     ResourceUrl(BUSINESSES, conn[c].id)))
    /\ conn' = Return(c)
    /\ UNCHANGED <<reviews, nextBid, nextRid, fkEnforced>>

\* DELETE /businesses/<id>: DELETE FROM reviews WHERE business_id = :id; it
\* waits for the rows it matches that another transaction holds or has pending.
delete_business(c, id) ==
    /\ conn[c].op = "idle"
    /\ ReviewsOf(id) \cap ReviewsLockedFor(c) = {}
    /\ id \notin PendingReviewsFor(c)
    /\ conn' = [conn EXCEPT ![c] = [IdleConn EXCEPT !.op = "delete_business",
                   !.pc = "delete", !.id = id, !.delset = ReviewsOf(id)]]
    /\ resp' = NoResp
    /\ UNCHANGED <<businesses, reviews, nextBid, nextRid, fkEnforced>>

\* DELETE /businesses/<id>: DELETE FROM businesses WHERE id = :id; it waits for
\* a lock on the row.  No child row is left for an enforced key to refuse: the
\* first statement deleted them and holds their range.
delete_business_delete(c) ==
    /\ conn[c].op = "delete_business" /\ conn[c].pc = "delete"
    /\ conn[c].id \notin BusinessesLockedFor(c)
    /\ conn' = [conn EXCEPT ![c].pc = "commit",
                            ![c].rowcount = rowcount(businesses, conn[c].id)]
    /\ resp' = NoResp
    /\ UNCHANGED <<businesses, reviews, nextBid, nextRid, fkEnforced>>

\* DELETE /businesses/<id>: conn.commit() and the response by result.rowcount.
delete_business_commit(c) ==
    /\ conn[c].op = "delete_business" /\ conn[c].pc = "commit"
    /\ reviews' = Without(reviews, conn[c].delset)
    /\ businesses' = IF conn[c].rowcount = 1 THEN Without(businesses, {conn[c].id})
                     ELSE businesses
    /\ resp' = IF conn[c].rowcount = 1
               THEN Response(c, "delete_business", conn[c].id, Nil, 204, Nil)
               ELSE Response(c, "delete_business", conn[c].id, Nil, 404, ERROR_NOT_FOUND)
    /\ conn' = Return(c)
    /\ UNCHANGED <<nextBid, nextRid, fkEnforced>>

\* ---------------------------------------------------------------- reviews

\* The JSON object get_review and put_review build from a row.
ReviewJson(id, row) ==
    [id |-> id, user_id |-> row.user_id,
     business |-> ResourceUrl(BUSINESSES, row.business_id),
     stars |-> row.stars, review_text |-> row.review_text,
     self |-> ResourceUrl(REVIEWS, id)]

\* The JSON object post_review answers with.
ReviewCreated(id, content) ==
    [id |-> id, user_id |-> content.user_id,
     business |-> ResourceUrl(BUSINESSES, content.business_id),
     stars |-> content.stars,
     review_text |-> IF "review_text" \in DOMAIN content THEN content.review_text ELSE "",
     self |-> CreatedUrl(REVIEWS, id)]

\* Requests that will still take a review id.
ReviewIdsClaimed ==
    Cardinality({d \in Conns : conn[d].op = "post_review" /\ conn[d].pc # "commit"})

\* POST /reviews: the required fields, then the business check.
post_review(c, content) ==
    /\ conn[c].op = "idle"
    /\ IF ~(ReviewRequired \subseteq DOMAIN content)
       THEN /\ resp' = Response(c, "post_review", 0, content, 400, ERROR_BAD_REQUEST)
            /\ UNCHANGED conn
       ELSE IF ~business_check(content.business_id)
       THEN /\ resp' = Response(c, "post_review", 0, content, 404, ERROR_NOT_FOUND)
            /\ UNCHANGED conn
       ELSE /\ nextRid + ReviewIdsClaimed <= MaxRev
            /\ resp' = NoResp
            /\ conn' = Goto(c, "post_review", "check", 0, content)
    /\ UNCHANGED <<businesses, reviews, nextBid, nextRid, fkEnforced>>

\* POST /reviews: the check for a review of the same user and business.
post_review_check(c) ==
    /\ conn[c].op = "post_review" /\ conn[c].pc = "check"
    /\ IF existing_review(conn[c].content.user_id, conn[c].content.business_id)
       THEN /\ resp' = Response(c, "post_review", 0, conn[c].content, 409, ERROR_CONFLICT)
            /\ conn' = Return(c)
       ELSE /\ resp' = NoResp
            /\ conn' = [conn EXCEPT ![c].pc = "insert"]
    /\ UNCHANGED <<businesses, reviews, nextBid, nextRid, fkEnforced>>

\* POST /reviews: the INSERT and SELECT last_insert_id(); it waits while an open
\* transaction has deleted the reviews of the business.  Where the store
\* enforces the key the statement also waits for a lock on the parent row and
\* fails when there is no parent: `except Exception` answers 500.
post_review_insert(c) ==
    /\ conn[c].op = "post_review" /\ conn[c].pc = "insert"
    /\ conn[c].content.business_id \notin BusinessesBeingDeletedFor(c)
    /\ fkEnforced => conn[c].content.business_id \notin BusinessesLockedFor(c)
    /\ IF fkEnforced /\ conn[c].content.business_id \notin DOMAIN businesses
       THEN /\ resp' = Response(c, "post_review", 0, conn[c].content, 500, ERROR_CREATE_REVIEW)
            /\ conn' = Return(c)
            /\ UNCHANGED nextRid
       ELSE /\ resp' = NoResp
            /\ conn' = [conn EXCEPT ![c].pc = "commit", ![c].newid = nextRid]
            /\ nextRid' = nextRid + 1
    /\ UNCHANGED <<businesses, reviews, nextBid, fkEnforced>>

\* POST /reviews: conn.commit() and the 201 response.
post_review_commit(c) ==
    /\ conn[c].op = "post_review" /\ conn[c].pc = "commit"
    /\ reviews' = (conn[c].newid :> ReviewRow(conn[c].content)) @@ reviews
    /\ resp' = Response(c, "post_review", conn[c].newid, conn[c].content, 201,
                        ReviewCreated(conn[c].newid, conn[c].content))
    /\ conn' = Return(c)
    /\ UNCHANGED <<businesses, nextBid, nextRid, fkEnforced>>

\* What GET /reviews/<id> answers.
get_review_response(id) ==
    IF id \notin DOMAIN reviews THEN [status |-> 404, body |-> ERROR_REVIEW_NOT_FOUND]
    ELSE [status |-> 200, body |-> ReviewJson(id, reviews[id])]

\* GET /reviews/<id>
get_review(c, id) ==
    /\ conn[c].op = "idle"
    /\ resp' = Response(c, "get_review", id, Nil,
                        get_review_response(id).status, get_review_response(id).body)
    /\ UNCHANGED <<businesses, reviews, nextBid, nextRid, fkEnforced, conn>>

\* PUT /reviews/<id>: stars is required; then the existence check.
put_review(c, id, content) ==
    /\ conn[c].op = "idle"
    /\ IF "stars" \notin DOMAIN content
       THEN /\ resp' = Response(c, "put_review", id, content, 400, ERROR_BAD_REQUEST)
            /\ UNCHANGED conn
       ELSE IF id \notin DOMAIN reviews
       THEN /\ resp' = Response(c, "put_review", id, content, 404, ERROR_REVIEW_NOT_FOUND)
            /\ UNCHANGED conn
       ELSE /\ resp' = NoResp
            /\ conn' = Goto(c, "put_review", "update", id, content)
    /\ UNCHANGED <<businesses, reviews, nextBid, nextRid, fkEnforced>>

\* PUT /reviews/<id>: the UPDATE; it waits for a lock on the row.
put_review_update(c) ==
    /\ conn[c].op = "put_review" /\ conn[c].pc = "update"
    /\ conn[c].id \notin ReviewsLockedFor(c)
    /\ conn' = [conn EXCEPT ![c].pc = "commit",
                            ![c].rowcount = rowcount(reviews, conn[c].id)]
    /\ resp' = NoResp
    /\ UNCHANGED <<businesses, reviews, nextBid, nextRid, fkEnforced>>

\* PUT /reviews/<id>: conn.commit().
put_review_commit(c) ==
    /\ conn[c].op = "put_review" /\ conn[c].pc = "commit"
    /\ reviews' = IF conn[c].rowcount = 1
                  THEN [reviews EXCEPT ![conn[c].id] = UpdatedReview(@, conn[c].content)]
                  ELSE reviews
    /\ conn' = [conn EXCEPT ![c].pc = "select", ![c].rowcount = 0]
    /\ resp' = NoResp
    /\ UNCHANGED <<businesses, nextBid, nextRid, fkEnforced>>

\* PUT /reviews/<id>: the SELECT of the updated row and the response.
put_review_select(c) ==
    /\ conn[c].op = "put_review" /\ conn[c].pc = "select"
    /\ resp' = IF conn[c].id \notin DOMAIN reviews
               THEN Response(c, "put_review", conn[c].id, conn[c].content, 404,
                             ERROR_REVIEW_NOT_FOUND)
               ELSE Response(c, "put_review", conn[c].id, conn[c].content, 200,
                             ReviewJson(conn[c].id, reviews[conn[c].id]))
    /\ conn' = Return(c)
    /\ UNCHANGED <<businesses, reviews, nextBid, nextRid, fkEnforced>>

\* DELETE /reviews/<id>: the DELETE; it waits for a lock on the row.
delete_review(c, id) ==
    /\ conn[c].op = "idle"
    /\ id \notin ReviewsLockedFor(c)
    /\ conn' = [conn EXCEPT ![c] = [IdleConn EXCEPT !.op = "delete_review", !.pc = "commit",
                   !.id = id, !.rowcount = rowcount(reviews, id)]]
    /\ resp' = NoResp
    /\ UNCHANGED <<businesses, reviews, nextBid, nextRid, fkEnforced>>

\* DELETE /reviews/<id>: conn.commit() and the response by result.rowcount.
delete_review_commit(c) ==
    /\ conn[c].op = "delete_review" /\ conn[c].pc = "commit"
    /\ reviews' = IF conn[c].rowcount = 1 THEN Without(reviews, {conn[c].id}) ELSE reviews
    /\ resp' = IF conn[c].rowcount = 1
               THEN Response(c, "delete_review", conn[c].id, Nil, 204, Nil)
               ELSE Response(c, "delete_review", conn[c].id, Nil, 404, ERROR_REVIEW_NOT_FOUND)
    /\ conn' = Return(c)
    /\ UNCHANGED <<businesses, nextBid, nextRid, fkEnforced>>

\* --------------------------------------------------------------- listings

Min(a, b) == IF a <= b THEN a ELSE b

RECURSIVE Ascending(_)
\* The ids of S in ascending order.
Ascending(S) ==
    IF S = {} THEN <<>>
    ELSE LET m == CHOOSE x \in S : \A y \in S : x <= y
         IN <<m>> \o Ascending(S \ {m})

\* SELECT * FROM <table> with no ORDER BY: the store scans the table by its
\* primary key, the same way at every request while the table is unchanged.
TableScan(table) == Ascending(DOMAIN table)

\* ... LIMIT :limit OFFSET :offset over the scanned ids.
LimitOffset(ids, limit, offset) == SubSeq(ids, offset + 1, Min(Len(ids), offset + limit))

\* rows[:limit] for a positive limit.
FirstRows(rows, limit) == SubSeq(rows, 1, Min(limit, Len(rows)))

\* offset + limit of the continuation URL.
next_offset(offset, limit) == offset + limit

\* The JSON object get_reviews builds from a row: the row and its `self`.
ReviewEntry(id, row) ==
    [id |-> id, user_id |-> row.user_id, business_id |-> row.business_id,
     stars |-> row.stars, review_text |-> row.review_text,
     self |-> ResourceUrl(REVIEWS, id)]

\* response_data of a listing: the entries and, when the fetch returned more
\* than `limit` rows, the continuation URL.
response_data(collection, entries, fetched, offset, limit) ==
    IF fetched > limit
    THEN [entries |-> entries, next |-> NextUrl(collection, next_offset(offset, limit), limit)]
    ELSE [entries |-> entries]

\* GET /businesses?offset=&limit= ; int(zip_code) of a row raises ValueError
\* when the stored text is no number, and nothing catches it.
get_businesses(c, offset, limit) ==
    /\ conn[c].op = "idle"
    /\ LET rows == LimitOffset(TableScan(businesses), limit + 1, offset)
           page == FirstRows(rows, limit)
       IN resp' = IF \E i \in 1..Len(page) : ~PyInt(businesses[page[i]].zip_code).ok
                  THEN Response(c, "get_businesses", 0, Nil, 500, ERROR_UNHANDLED)
                  ELSE Response(c, "get_businesses", 0, Nil, 200,
                           response_data(BUSINESSES,
                               [i \in 1..Len(page) |-> BusinessJson(page[i], businesses[page[i]])],
                               Len(rows), offset, limit))
    /\ UNCHANGED <<businesses, reviews, nextBid, nextRid, fkEnforced, conn>>

\* GET /reviews?offset=&limit=
get_reviews(c, offset, limit) ==
    /\ conn[c].op = "idle"
    /\ LET rows == LimitOffset(TableScan(reviews), limit + 1, offset)
           page == FirstRows(rows, limit)
       IN resp' = Response(c, "get_reviews", 0, Nil, 200,
                           response_data(REVIEWS,
                               [i \in 1..Len(page) |-> ReviewEntry(page[i], reviews[page[i]])],
                               Len(rows), offset, limit))
    /\ UNCHANGED <<businesses, reviews, nextBid, nextRid, fkEnforced, conn>>

\* ----------------------------------------------------------- a client

IdleTraversal == [state |-> "idle", which |-> "none", limit |-> 0, offset |-> 0,
                  ids |-> <<>>, log |-> <<>>]

\* The client after a page: it notes the page and follows `next` if there is one.
Followed(t, r) ==
    IF r.status # 200 THEN [t EXCEPT !.state = "failed"]
    ELSE LET more == "next" \in DOMAIN r.body
             page == [offset |-> t.offset, limit |-> t.limit,
                      count |-> Len(r.body.entries), more |-> more,
                      next_offset |-> IF more THEN r.body.next.offset ELSE 0,
                      next_limit |-> IF more THEN r.body.next.limit ELSE 0]
         IN [t EXCEPT !.state = IF more THEN "following" ELSE "done",
                      !.offset = IF more THEN r.body.next.offset ELSE @,
                      !.limit = IF more THEN r.body.next.limit ELSE @,
                      !.ids = @ \o [i \in 1..Len(r.body.entries) |-> r.body.entries[i].id],
                      !.log = Append(@, page)]

\* The client asks for the first page of a listing with a positive limit.
start_traversal(which, limit) ==
    /\ trav.state = "idle"
    /\ trav' = [IdleTraversal EXCEPT !.state = "following", !.which = which, !.limit = limit]
    /\ resp' = NoResp
    /\ UNCHANGED <<businesses, reviews, nextBid, nextRid, fkEnforced, conn, prev, pre>>

follow_businesses(c) ==
    /\ trav.state = "following" /\ trav.which = BUSINESSES
    /\ get_businesses(c, trav.offset, trav.limit)
    /\ trav' = Followed(trav, resp')
    /\ UNCHANGED <<prev, pre>>

follow_reviews(c) ==
    /\ trav.state = "following" /\ trav.which = REVIEWS
    /\ get_reviews(c, trav.offset, trav.limit)
    /\ trav' = Followed(trav, resp')
    /\ UNCHANGED <<prev, pre>>

\* --------------------------------------------------------- specifications

EmptyTable == [k \in {} |-> Nil]

Init ==
    /\ businesses = EmptyTable
    /\ reviews = EmptyTable
    /\ nextBid = 1
    /\ nextRid = 1
    /\ fkEnforced \in BOOLEAN
    /\ conn = [c \in Conns |-> IdleConn]
    /\ resp = NoResp
    /\ prev = NoResp
    /\ pre = [businesses |-> EmptyTable, reviews |-> EmptyTable]
    /\ trav = IdleTraversal

NoHistory == UNCHANGED <<prev, pre, trav>>

\* Requests on every connection of the pool, their statements interleaved.
Next ==
    \/ \E c \in Conns, content \in SomePostBodies : post_businesses(c, content) /\ NoHistory
    \/ \E c \in Conns : post_businesses_commit(c) /\ NoHistory
    \/ \E c \in Conns, id \in BizIds, content \in SomePutBodies :
          put_business(c, id, content) /\ NoHistory
    \/ \E c \in Conns : put_business_update(c) /\ NoHistory
    \/ \E c \in Conns : put_business_commit(c) /\ NoHistory
    \/ \E c \in Conns, id \in BizIds : delete_business(c, id) /\ NoHistory
    \/ \E c \in Conns : delete_business_delete(c) /\ NoHistory
    \/ \E c \in Conns : delete_business_commit(c) /\ NoHistory
    \/ \E c \in Conns, content \in SomeReviewBodies : post_review(c, content) /\ NoHistory
    \/ \E c \in Conns : post_review_check(c) /\ NoHistory
    \/ \E c \in Conns : post_review_insert(c) /\ NoHistory
    \/ \E c \in Conns : post_review_commit(c) /\ NoHistory
    \/ \E c \in Conns, id \in RevIds, content \in SomeReviewUpdates :
          put_review(c, id, content) /\ NoHistory
    \/ \E c \in Conns : put_review_update(c) /\ NoHistory
    \/ \E c \in Conns : put_review_commit(c) /\ NoHistory
    \/ \E c \in Conns : put_review_select(c) /\ NoHistory
    \/ \E c \in Conns, id \in RevIds : delete_review(c, id) /\ NoHistory
    \/ \E c \in Conns : delete_review_commit(c) /\ NoHistory

Spec == Init /\ [][Next]_vars

\* What a sequential run remembers of a response for the request after it:
\* that it created or deleted a review.
Remembered(r) ==
    IF r.op \in {"post_review", "delete_review"} /\ r.status \in {201, 204} THEN r ELSE NoResp

\* The history of a sequential run: when a request begins, the response before
\* it and the tables it starts from.
History(c) ==
    /\ prev' = IF resp # NoResp THEN Remembered(resp) ELSE prev
    /\ pre' = IF conn[c].op = "idle"
              THEN [businesses |-> businesses, reviews |-> reviews] ELSE pre
    /\ UNCHANGED trav

\* The connection that serves the requests of a sequential run.
SeqConn == "c1"

\* Requests one after the other: each handler runs to its response before the
\* next request begins.
SeqNext ==
    \/ \E content \in BusinessBodies : post_businesses(SeqConn, content) /\ History(SeqConn)
    \/ post_businesses_commit(SeqConn) /\ History(SeqConn)
    \/ \E id \in BizIds : get_business(SeqConn, id) /\ History(SeqConn)
    \/ \E id \in BizIds, content \in FullBusinessBodies \cup SomePutBodies :
          put_business(SeqConn, id, content) /\ History(SeqConn)
    \/ put_business_update(SeqConn) /\ History(SeqConn)
    \/ put_business_commit(SeqConn) /\ History(SeqConn)
    \/ \E id \in BizIds : delete_business(SeqConn, id) /\ History(SeqConn)
    \/ delete_business_delete(SeqConn) /\ History(SeqConn)
    \/ delete_business_commit(SeqConn) /\ History(SeqConn)
    \/ \E content \in ReviewBodies : post_review(SeqConn, content) /\ History(SeqConn)
    \/ post_review_check(SeqConn) /\ History(SeqConn)
    \/ post_review_insert(SeqConn) /\ History(SeqConn)
    \/ post_review_commit(SeqConn) /\ History(SeqConn)
    \/ \E id \in RevIds : get_review(SeqConn, id) /\ History(SeqConn)
    \/ \E id \in RevIds, content \in ReviewUpdates :
          put_review(SeqConn, id, content) /\ History(SeqConn)
    \/ put_review_update(SeqConn) /\ History(SeqConn)
    \/ put_review_commit(SeqConn) /\ History(SeqConn)
    \/ put_review_select(SeqConn) /\ History(SeqConn)
    \/ \E id \in RevIds : delete_review(SeqConn, id) /\ History(SeqConn)
    \/ delete_review_commit(SeqConn) /\ History(SeqConn)

SeqSpec == Init /\ [][SeqNext]_vars

\* The tables a traversal starts from: any ids the store has handed out and not
\* deleted; a business row as post_businesses stores it for Body1 or Body3, a
\* review row of user r on the first business.
ListedBusinesses ==
    UNION {[S -> {BusinessRow(Body1), BusinessRow(Body3)}] : S \in SUBSET (1..MaxRows)}

ListedReviews(b) ==
    {[r \in S |-> ReviewRow([user_id |-> r, business_id |-> b, stars |-> 2])] :
        S \in SUBSET (1..MaxRows)}

PageInit ==
    /\ businesses \in ListedBusinesses
    /\ reviews \in IF DOMAIN businesses = {} THEN {EmptyTable}
                   ELSE ListedReviews(CHOOSE b \in DOMAIN businesses :
                                         \A x \in DOMAIN businesses : b <= x)
    /\ nextBid = MaxRows + 1
    /\ nextRid = MaxRows + 1
    /\ fkEnforced = FALSE
    /\ conn = [c \in Conns |-> IdleConn]
    /\ resp = NoResp
    /\ prev = NoResp
    /\ pre = [businesses |-> businesses, reviews |-> reviews]
    /\ trav = IdleTraversal

\* A client pages through a listing while no request changes the tables.
PageNext ==
    \/ \E which \in {BUSINESSES, REVIEWS}, limit \in 1..MaxLimit : start_traversal(which, limit)
    \/ follow_businesses(SeqConn)
    \/ follow_reviews(SeqConn)

PageSpec == PageInit /\ [][PageNext]_vars

\* ------------------------------------------------------------------ claims

SamePair(a, b) == a.user_id = b.user_id /\ a.business_id = b.business_id

\* C1: when two post_review requests for the same (user_id, business_id) run at
\* the same time on two connections, they do not both succeed: in every
\* reachable state table reviews holds at most one row per pair.
C1_OneReviewPerPair ==
    \A r1, r2 \in DOMAIN reviews : SamePair(reviews[r1], reviews[r2]) => r1 = r2

\* C2: in every reachable state, under any interleaving of the write requests,
\* the business_id of every stored review is the id of a stored business.
C2_NoOrphanReview ==
    \A r \in DOMAIN reviews : reviews[r].business_id \in DOMAIN businesses

\* Where the store enforces the foreign key no review is left without its
\* business: C2 fails only where it does not.
EnforcedKeyKeepsParents == fkEnforced => C2_NoOrphanReview

C4_DeleteBusinessCascades ==
    (resp.op = "delete_business" /\ resp.id \in DOMAIN pre.businesses)
    => /\ resp.status = 204
       /\ \A r \in DOMAIN reviews : reviews[r].business_id # resp.id
       /\ \A r \in DOMAIN pre.reviews :
             pre.reviews[r].business_id = resp.id
             => get_review_response(r) = [status |-> 404, body |-> ERROR_REVIEW_NOT_FOUND]
       /\ businesses = Without(pre.businesses, {resp.id})
       /\ reviews = Without(pre.reviews,
                        {r \in DOMAIN pre.reviews : pre.reviews[r].business_id = resp.id})

C4_Witness ==
    /\ resp.op = "delete_business" /\ resp.status = 204
    /\ \E r \in DOMAIN pre.reviews : pre.reviews[r].business_id = resp.id
    /\ DOMAIN reviews # {}

\* C5: post_review with user_id, business_id and stars whose business_id is the
\* id of no stored business answers 404 with the business message, and both
\* tables are as they were.
C5_UnknownBusinessRejected ==
    (/\ resp.op = "post_review" /\ ReviewRequired \subseteq DOMAIN resp.req
     /\ resp.req.business_id \notin DOMAIN pre.businesses)
    => /\ resp.status = 404 /\ resp.body = ERROR_NOT_FOUND
       /\ businesses = pre.businesses /\ reviews = pre.reviews

C5_Witness ==
    /\ resp.op = "post_review" /\ resp.status = 404
    /\ ReviewRequired \subseteq DOMAIN resp.req
    /\ DOMAIN businesses # {}

\* C7: put_review on a stored review with a body of stars alone answers 200,
\* stores the stars, and leaves the review's review_text, user_id and
\* business_id, every other review and every business as they were.
C7_StarsOnlyUpdate ==
    (resp.op = "put_review" /\ DOMAIN resp.req = {"stars"} /\ resp.id \in DOMAIN pre.reviews)
    => /\ resp.status = 200
       /\ reviews = [pre.reviews EXCEPT ![resp.id].stars = resp.req.stars]
       /\ businesses = pre.businesses

C7_Witness ==
    /\ resp.op = "put_review" /\ resp.status = 200 /\ DOMAIN resp.req = {"stars"}
    /\ resp.id \in DOMAIN pre.reviews
    /\ pre.reviews[resp.id].review_text = "t1"
    /\ pre.reviews[resp.id].stars # resp.req.stars
    /\ Cardinality(DOMAIN reviews) = 2

\* C8: delete_review(r) answers 204 exactly when a row r was stored and this
\* call removed it, and 404 with the review message otherwise; so the
\* delete_review(r) right after a delete_review(r) that answered 204 answers
\* 404 and changes no table.
C8_DeleteReviewOnce ==
    resp.op = "delete_review"
    => /\ resp.status = IF resp.id \in DOMAIN pre.reviews THEN 204 ELSE 404
       /\ resp.status = 204 => reviews = Without(pre.reviews, {resp.id})
       /\ resp.status = 404 => resp.body = ERROR_REVIEW_NOT_FOUND /\ reviews = pre.reviews
       /\ businesses = pre.businesses
       /\ (prev.op = "delete_review" /\ prev.status = 204 /\ prev.id = resp.id)
          => resp.status = 404 /\ reviews = pre.reviews

C8_Witness ==
    /\ resp.op = "delete_review" /\ resp.status = 404
    /\ prev.op = "delete_review" /\ prev.status = 204 /\ prev.id = resp.id
    /\ DOMAIN reviews # {}

\* The integer a JSON zip_code stands for.
IntegerValue(v) == IF v.t = "int" THEN v.n ELSE PyInt(v.s).val

ReadsBack(r) ==
    LET got == get_business_response(r.body.id)
    IN /\ got.status = 200
       /\ got.body.id = r.body.id
       /\ got.body.owner_id = r.req.owner_id
       /\ got.body.name = r.req.name
       /\ got.body.street_address = r.req.street_address
       /\ got.body.city = r.req.city
       /\ got.body.state = r.req.state
       /\ got.body.zip_code = JInt(IntegerValue(r.req.zip_code))
       /\ got.body.self = r.body.self

\* C9: post_businesses with all six fields answers 201 with a fresh id and a
\* `self` URL naming it, and get_business on that id then answers 200 with the
\* same id, owner_id, name, street_address, city and state, the integer value
\* of the zip_code, and the same `self`.
C9_CreatedBusinessReadsBack ==
    (resp.op = "post_businesses" /\ BusinessFields \subseteq DOMAIN resp.req)
    => /\ resp.status = 201
       /\ resp.body.id \notin DOMAIN pre.businesses
       /\ resp.body.self = <<BUSINESSES, resp.body.id>>
       /\ ReadsBack(resp)

\* The round trip of C9 for the bodies whose zip_code has an integer value.
NumericZipReadsBack ==
    (/\ resp.op = "post_businesses" /\ BusinessFields \subseteq DOMAIN resp.req
     /\ (resp.req.zip_code.t = "str" => PyInt(resp.req.zip_code.s).ok))
    => /\ resp.status = 201
       /\ resp.body.id \notin DOMAIN pre.businesses
       /\ resp.body.self = <<BUSINESSES, resp.body.id>>
       /\ ReadsBack(resp)

\* C10: post_businesses with a body that lacks one of the six fields answers 400
\* with the missing-attributes message and stores no row.
C10_MissingFieldRejected ==
    (resp.op = "post_businesses" /\ \E f \in BusinessFields : DOMAIN resp.req = BusinessFields \ {f})
    => /\ resp.status = 400 /\ resp.body = ERROR_BAD_REQUEST
       /\ businesses = pre.businesses /\ reviews = pre.reviews

C10_Witness ==
    /\ resp.op = "post_businesses" /\ resp.status = 400
    /\ DOMAIN resp.req = BusinessFields \ {"state"}
    /\ DOMAIN businesses # {}

\* The ids of the table the client lists.
Listed == IF trav.which = BUSINESSES THEN DOMAIN businesses ELSE DOMAIN reviews

\* What C6 says of a traversal, as far as it has come.
TraversalCorrect ==
    /\ trav.state # "failed"
    /\ Len(trav.log) <= Cardinality(Listed) + 1
    /\ \A i \in 1..Len(trav.log) :
          LET page == trav.log[i]
          IN /\ page.limit = trav.log[1].limit
             /\ page.offset = (i - 1) * page.limit
             /\ page.count <= page.limit
             /\ i < Len(trav.log) => page.more
             /\ page.more => /\ page.next_offset = page.offset + page.limit
                             /\ page.next_limit = page.limit
    /\ trav.state = "done"
       => /\ ~trav.log[Len(trav.log)].more
          /\ Len(trav.ids) = Cardinality(Listed)
          /\ {trav.ids[i] : i \in 1..Len(trav.ids)} = Listed

\* C6: with the table unchanged and a positive limit L, get_businesses from
\* offset 0 followed along `next` ends; each page has at most L entries; each
\* page but the last carries `next` with the offset advanced by L and the limit
\* L; the last page has no `next`; and the ids of all pages are the stored ids,
\* each once.  The same for get_reviews.
C6_TraversalYieldsEveryId == trav.state # "idle" => TraversalCorrect

\* The traversal of C6 over reviews, and over businesses whose stored zip_code
\* is a number.
NumericTraversalYieldsEveryId ==
    (/\ trav.state # "idle"
     /\ trav.which = BUSINESSES => \A b \in DOMAIN businesses : PyInt(businesses[b].zip_code).ok)
    => TraversalCorrect

\* C11: whenever put_business(id) returns its success response, the businesses
\* table at that moment holds a row with that id whose six fields are the
\* supplied values, as the columns store them; also when a delete_business(id)
\* on another connection commits between the lookup and the UPDATE.
C11_PutSuccessMeansStored ==
    (resp.op = "put_business" /\ resp.status = 200)
    => /\ resp.id \in DOMAIN businesses
       /\ businesses[resp.id] = BusinessRow(resp.req)

====
